---- MODULE Spec2Model ----
(***************************************************************************)
(* ResConv: resume converter between DOCX and PDF.                         *)
(*                                                                         *)
(* The model follows converter.py (main, _prompt_for_file,                 *)
(* convert_docx_to_pdf, convert_pdf_to_docx) and app.py (the web form),    *)
(* one action per statement group of the code.  The third-party            *)
(* converters and the office-suite subprocess are the environment: each    *)
(* of their calls either succeeds (and writes the file it is documented to *)
(* write) or raises one of the exceptions the Python call can raise.       *)
(*                                                                         *)
(* A path is a record [parent, stem, suffix]; the file name is stem \o     *)
(* suffix, as pathlib splits it.                                           *)
(***************************************************************************)
EXTENDS Naturals, Sequences, FiniteSets, TLC

VARIABLES
    frontend,    \* "cli" (main) or "web" (app.py)
    args,        \* parsed arguments: [input, output, to]
    colab,       \* colab_files is not None
    soffice,     \* shutil.which("soffice") finds the binary
    pc,          \* position in the running code
    src,         \* source path
    src_ext,     \* lower-cased source suffix
    target_ext,  \* target extension
    out,         \* destination path handed to the converter
    conv,        \* converter that was invoked, "none" before dispatch
    fs,          \* files that exist (resolved paths)
    dirs,        \* directories that exist (resolved)
    log,         \* sequence of side effects performed so far
    err,         \* exception that reached the caller, "none" otherwise
    prompts      \* iterations of the upload loop of _prompt_for_file

vars == <<frontend, args, colab, soffice, pc, src, src_ext, target_ext, out,
          conv, fs, dirs, log, err, prompts>>

----------------------------------------------------------------------------
(* Bounds *)

MaxPrompts == 2

----------------------------------------------------------------------------
(* Paths *)

NoPath == [parent |-> "<none>", stem |-> "", suffix |-> ""]
DotPath == [parent |-> ".", stem |-> "", suffix |-> ""]

MkPath(d, s, x) == [parent |-> d, stem |-> s, suffix |-> x]

\* str.lower() on the suffixes that occur
Lower(s) ==
    CASE s = ".PDF" -> ".pdf"
      [] s = ".DOCX" -> ".docx"
      [] s = ".Txt" -> ".txt"
      [] OTHER -> s

\* Path.name
Name(p) == p.stem \o p.suffix

\* Path.with_suffix(ext); defined for a path with a non-empty name
WithSuffix(p, ext) == [p EXCEPT !.suffix = ext]

\* Path.resolve() on a directory: relative to the working directory
ResolveDir(d) ==
    CASE d = "." -> "/cwd"
      [] d = "outdir" -> "/cwd/outdir"
      [] OTHER -> d

\* Path.resolve()
Resolve(p) == [p EXCEPT !.parent = ResolveDir(p.parent)]

\* Path.exists()
Exists(p) == Resolve(p) \in fs

\* dst.parent / name-of(p with a new suffix): where the office suite writes
OfficeOutput(s, dst, ext) == MkPath(dst.parent, s.stem, ext)

----------------------------------------------------------------------------
(* Inputs *)

SupportedExts == {".docx", ".pdf"}

SrcSuffixes == {".docx", ".DOCX", ".pdf", ".PDF", ".txt", ""}
InputPaths == {MkPath(".", "resume", x) : x \in SrcSuffixes}

OutDirs == {".", "outdir"}
OutStems == {"resume", "out"}
OutSuffixes == {".pdf", ".PDF", ".docx", ".txt", ""}
OutputPaths == {MkPath(d, s, x) : d \in OutDirs, s \in OutStems, x \in OutSuffixes}
               \cup {DotPath}

ToChoices == {"none", "pdf", "docx"}

\* st.file_uploader(type=["pdf", "docx"]) accepts these names
UploadNames == {MkPath("/tmp/tmpdir", "resume", x) : x \in {".docx", ".DOCX", ".pdf", ".PDF"}}

\* colab_files.upload() results: nothing, an unsupported file, a supported one
ColabUploads == {NoPath} \cup {MkPath(".", "resume", x) : x \in {".txt", ".docx", ".PDF"}}

\* the log records each side effect with its outcome
Append1(e) == log' = Append(log, e)
Logged(e) == \E i \in 1..Len(log) : log[i] = e
Count(S) == Cardinality({i \in 1..Len(log) : log[i] \in S})
PrimaryRuns == {"primary:ok", "primary:raise"}
SofficeRuns == {"soffice:zero", "soffice:nonzero", "soffice:oserror"}
SecondaryRuns == {"secondary:ok", "secondary:raise"}

----------------------------------------------------------------------------
(* Initial states *)

Init ==
    /\ frontend \in {"cli", "web"}
    /\ colab \in BOOLEAN
    /\ soffice \in BOOLEAN
    /\ \/ /\ frontend = "cli"
          /\ args \in [input : InputPaths \cup {NoPath},
                       output : OutputPaths \cup {NoPath},
                       to : ToChoices]
          /\ pc = "m_input"
          /\ \/ fs = {}
             \/ args.input # NoPath /\ fs = {Resolve(args.input)}
       \/ /\ frontend = "web"
          /\ args \in [input : UploadNames, output : {NoPath}, to : {"none"}]
          /\ pc = "w_uploaded"
          /\ colab = FALSE
          /\ fs = {}
    /\ src = NoPath
    /\ src_ext = ""
    /\ target_ext = ""
    /\ out = NoPath
    /\ conv = "none"
    /\ dirs = {"/cwd", "/tmp/tmpdir"}
    /\ log = <<>>
    /\ err = "none"
    /\ prompts = 0

\* raise: the exception reaches the caller
Raise(e) ==
    /\ pc' = "raised"
    /\ err' = e

----------------------------------------------------------------------------
(* main: Format Router *)

\* converter.py 128-131, 84-86
MainInput ==
    /\ pc = "m_input"
    /\ IF args.input # NoPath
       THEN /\ src' = Resolve(args.input)
            /\ pc' = "m_exists"
            /\ err' = err
       ELSE /\ src' = src
            /\ IF ~colab
               THEN Raise("NoUploadProvided")
               ELSE pc' = "m_prompt" /\ err' = err
    /\ UNCHANGED <<frontend, args, colab, soffice, src_ext, target_ext, out,
                   conv, fs, dirs, log, prompts>>

\* converter.py 88-102: one iteration of the upload loop
PromptUpload ==
    /\ pc = "m_prompt"
    /\ prompts < MaxPrompts
    /\ \E up \in ColabUploads :
        /\ prompts' = prompts + 1
        /\ IF up = NoPath
           THEN UNCHANGED <<src, pc, fs>>
           ELSE /\ fs' = fs \cup {Resolve(up)}
                /\ IF Lower(up.suffix) \notin SupportedExts
                   THEN UNCHANGED <<src, pc>>
                   ELSE /\ src' = Resolve(up)
                        /\ pc' = "m_exists"
    /\ UNCHANGED <<frontend, args, colab, soffice, src_ext, target_ext, out,
                   conv, dirs, log, err>>

\* variant: the destination directory is created before the source is checked
MainExistsAfterMkdir ==
    /\ pc = "m_exists"
    /\ dirs' = dirs \cup {"/cwd/outdir"}
    /\ IF ~Exists(src)
       THEN Raise("MissingFile")
       ELSE pc' = "m_ext" /\ err' = err
    /\ UNCHANGED <<frontend, args, colab, soffice, src, src_ext, target_ext,
                   out, conv, fs, log, prompts>>

\* converter.py 136-137
MainExists ==
    /\ pc = "m_exists"
    /\ IF ~Exists(src)
       THEN Raise("MissingFile")
       ELSE pc' = "m_ext" /\ err' = err
    /\ UNCHANGED <<frontend, args, colab, soffice, src, src_ext, target_ext,
                   out, conv, fs, dirs, log, prompts>>

\* variant: a file without extension passes the extension test
IsSupportedNoExt(ext) == ext \in SupportedExts \cup {""}

\* the test of converter.py 140
IsSupported(ext) == ext \in SupportedExts

\* converter.py 139-141
MainExt ==
    /\ pc = "m_ext"
    /\ src_ext' = Lower(src.suffix)
    /\ IF ~IsSupported(Lower(src.suffix))
       THEN Raise("Unsupported")
       ELSE pc' = "m_target" /\ err' = err
    /\ UNCHANGED <<frontend, args, colab, soffice, src, target_ext, out, conv,
                   fs, dirs, log, prompts>>

\* variant: the override is ignored
TargetExtNoOverride(to, sext) ==
    IF sext = ".docx" THEN ".pdf" ELSE ".docx"

\* converter.py 143
TargetExt(to, sext) ==
    IF to # "none" THEN "." \o to
    ELSE IF sext = ".docx" THEN ".pdf" ELSE ".docx"

\* converter.py 143-146
MainTarget ==
    /\ pc = "m_target"
    /\ target_ext' = TargetExt(args.to, src_ext)
    /\ IF TargetExt(args.to, src_ext) = src_ext
       THEN Raise("SameFormat")
       ELSE pc' = "m_out" /\ err' = err
    /\ UNCHANGED <<frontend, args, colab, soffice, src, src_ext, out, conv, fs,
                   dirs, log, prompts>>

\* variant: the suffix is compared without lower-casing
SuffixMismatchCased(o, text) == o.suffix # text

\* the test of converter.py 150
SuffixMismatch(o, text) == Lower(o.suffix) # text

\* converter.py 148-153; with_suffix raises ValueError on an empty name
MainOut ==
    /\ pc = "m_out"
    /\ IF args.output # NoPath
       THEN IF SuffixMismatch(args.output, target_ext)
            THEN IF Name(args.output) = ""
                 THEN Raise("EmptyName") /\ out' = out
                 ELSE /\ out' = WithSuffix(args.output, target_ext)
                      /\ pc' = "m_dispatch"
                      /\ err' = err
            ELSE /\ out' = args.output
                 /\ pc' = "m_dispatch"
                 /\ err' = err
       ELSE /\ out' = WithSuffix(MkPath(".", "output_resume", ""), target_ext)
            /\ pc' = "m_dispatch"
            /\ err' = err
    /\ UNCHANGED <<frontend, args, colab, soffice, src, src_ext, target_ext,
                   conv, fs, dirs, log, prompts>>

\* variant: the two branches of the dispatch are exchanged
ConverterSwapped(text) == IF text = ".pdf" THEN "pdf_to_docx" ELSE "docx_to_pdf"

\* converter.py 155-158 and app.py 32-35: which converter runs
Converter(text) == IF text = ".pdf" THEN "docx_to_pdf" ELSE "pdf_to_docx"

\* converter.py 155-158
MainDispatch ==
    /\ pc = "m_dispatch"
    /\ conv' = Converter(target_ext)
    /\ pc' = IF Converter(target_ext) = "docx_to_pdf" THEN "d_mkdir" ELSE "p_mkdir"
    /\ UNCHANGED <<frontend, args, colab, soffice, src, src_ext, target_ext,
                   out, fs, dirs, log, err, prompts>>

\* converter.py 160
MainPrint ==
    /\ pc = "c_return"
    /\ frontend = "cli"
    /\ Append1("print_saved")
    /\ pc' = "done"
    /\ UNCHANGED <<frontend, args, colab, soffice, src, src_ext, target_ext,
                   out, conv, fs, dirs, err, prompts>>

----------------------------------------------------------------------------
(* convert_docx_to_pdf *)

\* converter.py 29
DocxMkdir ==
    /\ pc = "d_mkdir"
    /\ dirs' = dirs \cup {ResolveDir(out.parent)}
    /\ Append1("mkdir")
    /\ pc' = "d_primary"
    /\ UNCHANGED <<frontend, args, colab, soffice, src, src_ext, target_ext,
                   out, conv, fs, err, prompts>>

\* converter.py 30-32: docx2pdf either writes dst or raises
DocxPrimary ==
    /\ pc = "d_primary"
    /\ \E ok \in BOOLEAN :
        IF ok
        THEN Append1("primary:ok") /\ fs' = fs \cup {Resolve(out)} /\ pc' = "c_return"
        ELSE Append1("primary:raise") /\ fs' = fs /\ pc' = "d_which"
    /\ UNCHANGED <<frontend, args, colab, soffice, src, src_ext, target_ext,
                   out, conv, dirs, err, prompts>>

\* variant: the binary is run without testing that it was found
DocxWhichUnchecked ==
    /\ pc = "d_which"
    /\ pc' = "d_soffice"
    /\ UNCHANGED <<frontend, args, colab, soffice, src, src_ext, target_ext,
                   out, conv, fs, dirs, log, err, prompts>>

\* converter.py 34-36
DocxWhich ==
    /\ pc = "d_which"
    /\ IF ~soffice
       THEN Raise("DependencyMissing")
       ELSE pc' = "d_soffice" /\ err' = err
    /\ UNCHANGED <<frontend, args, colab, soffice, src, src_ext, target_ext,
                   out, conv, fs, dirs, log, prompts>>

\* converter.py 37-48: subprocess.run(check=True); the office suite writes
\* <outdir>/<source base name>.pdf on exit status zero
DocxSoffice ==
    /\ pc = "d_soffice"
    /\ \E res \in {"zero", "nonzero", "oserror"} :
        CASE res = "zero" ->
               /\ Append1("soffice:zero")
               /\ fs' = fs \cup {Resolve(OfficeOutput(src, out, ".pdf"))}
               /\ pc' = "c_return"
               /\ err' = err
          [] res = "nonzero" ->
               Append1("soffice:nonzero") /\ fs' = fs /\ Raise("CalledProcessError")
          [] res = "oserror" ->
               Append1("soffice:oserror") /\ fs' = fs /\ Raise("OSError")
    /\ UNCHANGED <<frontend, args, colab, soffice, src, src_ext, target_ext,
                   out, conv, dirs, prompts>>

----------------------------------------------------------------------------
(* convert_pdf_to_docx *)

\* converter.py 52
PdfMkdir ==
    /\ pc = "p_mkdir"
    /\ dirs' = dirs \cup {ResolveDir(out.parent)}
    /\ Append1("mkdir")
    /\ pc' = "p_which"
    /\ UNCHANGED <<frontend, args, colab, soffice, src, src_ext, target_ext,
                   out, conv, fs, err, prompts>>

\* converter.py 54-55
PdfWhich ==
    /\ pc = "p_which"
    /\ pc' = IF soffice THEN "p_soffice" ELSE "p_secondary"
    /\ UNCHANGED <<frontend, args, colab, soffice, src, src_ext, target_ext,
                   out, conv, fs, dirs, log, err, prompts>>

\* variant: the return after a successful run is missing, so the code falls
\* through to the secondary library
PdfSofficeFallThrough ==
    /\ pc = "p_soffice"
    /\ \E res \in {"zero", "nonzero", "oserror"} :
        CASE res = "zero" ->
               /\ Append1("soffice:zero")
               /\ fs' = fs \cup {Resolve(OfficeOutput(src, out, ".docx"))}
               /\ pc' = "p_secondary"
               /\ err' = err
          [] res = "nonzero" ->
               /\ Append1("soffice:nonzero")
               /\ fs' = fs
               /\ pc' = "p_secondary"
               /\ err' = err
          [] res = "oserror" ->
               Append1("soffice:oserror") /\ fs' = fs /\ Raise("OSError")
    /\ UNCHANGED <<frontend, args, colab, soffice, src, src_ext, target_ext,
                   out, conv, dirs, prompts>>

\* converter.py 56-69, 75-76: only CalledProcessError is caught
PdfSoffice ==
    /\ pc = "p_soffice"
    /\ \E res \in {"zero", "nonzero", "oserror"} :
        CASE res = "zero" ->
               /\ Append1("soffice:zero")
               /\ fs' = fs \cup {Resolve(OfficeOutput(src, out, ".docx"))}
               /\ pc' = "p_post"
               /\ err' = err
          [] res = "nonzero" ->
               /\ Append1("soffice:nonzero")
               /\ fs' = fs
               /\ pc' = "p_secondary"
               /\ err' = err
          [] res = "oserror" ->
               Append1("soffice:oserror") /\ fs' = fs /\ Raise("OSError")
    /\ UNCHANGED <<frontend, args, colab, soffice, src, src_ext, target_ext,
                   out, conv, dirs, prompts>>

\* converter.py 71
libreoffice_output == OfficeOutput(src, out, ".docx")

\* variant: the office-suite output is left under its own name
PdfPostNoRename ==
    /\ pc = "p_post"
    /\ pc' = "c_return"
    /\ UNCHANGED <<frontend, args, colab, soffice, src, src_ext, target_ext,
                   out, conv, fs, dirs, log, err, prompts>>

\* converter.py 71-74: Path.rename either moves the file or raises OSError,
\* which is not a CalledProcessError and leaves the function
PdfPost ==
    /\ pc = "p_post"
    /\ IF Exists(libreoffice_output) /\ libreoffice_output # out
       THEN \E ok \in BOOLEAN :
              IF ok
              THEN /\ fs' = (fs \ {Resolve(libreoffice_output)}) \cup {Resolve(out)}
                   /\ Append1("rename")
                   /\ pc' = "c_return"
                   /\ err' = err
              ELSE /\ Append1("rename:oserror")
                   /\ fs' = fs
                   /\ Raise("OSError")
       ELSE /\ pc' = "c_return"
            /\ UNCHANGED <<fs, log, err>>
    /\ UNCHANGED <<frontend, args, colab, soffice, src, src_ext, target_ext,
                   out, conv, dirs, prompts>>

\* converter.py 79-81: pdf2docx either writes dst or raises
PdfSecondary ==
    /\ pc = "p_secondary"
    /\ \E ok \in BOOLEAN :
        IF ok
        THEN /\ Append1("secondary:ok")
             /\ fs' = fs \cup {Resolve(out)}
             /\ pc' = "c_return"
             /\ err' = err
        ELSE Append1("secondary:raise") /\ fs' = fs /\ Raise("SecondaryFailed")
    /\ UNCHANGED <<frontend, args, colab, soffice, src, src_ext, target_ext,
                   out, conv, dirs, prompts>>

----------------------------------------------------------------------------
(* app.py: the web form *)

\* app.py 16
WebTargetExt(sfx) == IF sfx = ".docx" THEN ".pdf" ELSE ".docx"

\* app.py 14-35: the upload is saved in the temporary directory and the
\* converter chosen from the target extension
WebConvert ==
    /\ pc = "w_uploaded"
    /\ src_ext' = Lower(args.input.suffix)
    /\ target_ext' = WebTargetExt(Lower(args.input.suffix))
    /\ src' = args.input
    /\ fs' = fs \cup {Resolve(args.input)}
    /\ out' = WithSuffix(args.input, WebTargetExt(Lower(args.input.suffix)))
    /\ conv' = Converter(WebTargetExt(Lower(args.input.suffix)))
    /\ pc' = IF Converter(WebTargetExt(Lower(args.input.suffix))) = "docx_to_pdf"
             THEN "d_mkdir" ELSE "p_mkdir"
    /\ UNCHANGED <<frontend, args, colab, soffice, dirs, log, err, prompts>>

\* app.py 38-40: out_path.read_bytes() raises when the file is missing
WebRead ==
    /\ pc = "c_return"
    /\ frontend = "web"
    /\ IF Exists(out)
       THEN Append1("web_success") /\ pc' = "done" /\ err' = err
       ELSE log' = log /\ Raise("ReadMissing")
    /\ UNCHANGED <<frontend, args, colab, soffice, src, src_ext, target_ext,
                   out, conv, fs, dirs, prompts>>

----------------------------------------------------------------------------

Next ==
    \/ MainInput
    \/ PromptUpload
    \/ MainExists
    \/ MainExt
    \/ MainTarget
    \/ MainOut
    \/ MainDispatch
    \/ MainPrint
    \/ DocxMkdir
    \/ DocxPrimary
    \/ DocxWhich
    \/ DocxSoffice
    \/ PdfMkdir
    \/ PdfWhich
    \/ PdfSoffice
    \/ PdfPost
    \/ PdfSecondary
    \/ WebConvert
    \/ WebRead

Spec == Init /\ [][Next]_vars

----------------------------------------------------------------------------
(* Properties *)

Returned == pc \in {"c_return", "done"}
Validating == pc \in {"m_input", "m_prompt", "m_exists", "m_ext", "m_target"}
ValidationErrors == {"NoUploadProvided", "MissingFile", "Unsupported", "SameFormat"}
InitialDirs == {"/cwd", "/tmp/tmpdir"}

\* C1: whenever a converter has returned without raising (and so whenever
\* main has printed its success message) a file exists at the destination
\* path that was requested.
C1_DestinationExists ==
    Returned => Exists(out)

\* C2: in convert_pdf_to_docx, after the office suite exited with status zero
\* and the function returned: if the file it wrote is at a path other than
\* dst, that file was renamed to dst (dst exists, the office-suite-named file
\* does not); if the paths are equal no rename was performed.
C2_RenamedToDestination ==
    (conv = "pdf_to_docx" /\ Logged("soffice:zero") /\ Returned) =>
        IF libreoffice_output # out
        THEN /\ Exists(out)
             /\ ~Exists(libreoffice_output)
             /\ Count({"rename"}) = 1
        ELSE /\ Count({"rename", "rename:oserror"}) = 0
             /\ Exists(out)

C2_Witness ==
    /\ conv = "pdf_to_docx"
    /\ pc = "c_return"
    /\ Logged("soffice:zero")
    /\ Logged("rename")
    /\ libreoffice_output # out
    /\ Exists(out)

\* C3: an error reaches the caller of a converter only when every tier of
\* that direction has been attempted (or was unavailable) and has failed.
C3_ErrorOnlyAfterAllTiers ==
    (pc = "raised" /\ conv # "none" /\ err # "ReadMissing") =>
        IF conv = "pdf_to_docx"
        THEN /\ Logged("secondary:raise")
             /\ soffice => Count(SofficeRuns) = 1
        ELSE /\ Logged("primary:raise")
             /\ soffice => Count(SofficeRuns) = 1

\* C4: in convert_docx_to_pdf, once the primary method has raised and the
\* office-suite binary cannot be located, no external process is invoked and
\* the call raises DependencyMissing, not the primary method's exception.
C4_DependencyMissing ==
    (conv = "docx_to_pdf" /\ Logged("primary:raise") /\ ~soffice) =>
        /\ Count(SofficeRuns) = 0
        /\ pc # "d_soffice"
        /\ pc = "d_which" \/ (pc = "raised" /\ err = "DependencyMissing")

C4_Witness ==
    /\ conv = "docx_to_pdf"
    /\ Logged("primary:raise")
    /\ ~soffice
    /\ pc = "raised"
    /\ err = "DependencyMissing"

\* C5: for a supported source extension and every value of --to, main raises
\* the same-format error exactly when the override names the source's own
\* format, and otherwise goes on with a supported target extension different
\* from the source extension; no converter runs with target = source.
C5_TargetDiffersFromSource ==
    /\ (frontend = "cli" /\ ~Validating /\ err \notin ValidationErrors \ {"SameFormat"}) =>
          /\ src_ext \in SupportedExts
          /\ (err = "SameFormat") <=> (args.to # "none" /\ "." \o args.to = src_ext)
          /\ err # "SameFormat" =>
                (target_ext \in SupportedExts /\ target_ext # src_ext)
    /\ err = "SameFormat" => conv = "none"
    /\ conv # "none" => target_ext # src_ext

C5_Witness ==
    /\ frontend = "cli"
    /\ err = "SameFormat"
    /\ args.to = "docx"
    /\ src_ext = ".docx"

\* C6 as stated: for every source whose extension is outside {.docx, .pdf},
\* main ends with the unsupported-format error and runs no converter.
C6_UnsupportedAlwaysRejected ==
    (frontend = "cli" /\ src # NoPath /\ ~IsSupported(Lower(src.suffix))
        /\ pc \in {"raised", "done"}) =>
        (err = "Unsupported" /\ conv = "none")

\* C6 amended: for every source that exists and whose extension is outside
\* {.docx, .pdf}, main ends with the unsupported-format error whatever --to
\* and --output are; a source that does not exist ends with the missing-file
\* error; in both cases no converter runs and nothing has been done.
C6_ExistingUnsupportedRejected ==
    (frontend = "cli" /\ src # NoPath /\ Lower(src.suffix) \notin SupportedExts) =>
        /\ conv = "none"
        /\ log = <<>>
        /\ pc \in {"m_exists", "m_ext", "raised"}
        /\ pc = "raised" => err = (IF Exists(src) THEN "Unsupported" ELSE "MissingFile")

C6_Witness ==
    /\ frontend = "cli"
    /\ src.suffix = ".txt"
    /\ Exists(src)
    /\ args.to = "pdf"
    /\ args.output # NoPath
    /\ pc = "raised"
    /\ err = "Unsupported"

\* C7: with no override the target is the swap of the source format and the
\* matching converter runs: .docx gives .pdf and convert_docx_to_pdf, .pdf
\* gives .docx and convert_pdf_to_docx, for main and for the web form alike.
C7_DefaultSwap ==
    /\ (conv # "none" /\ args.to = "none") =>
          /\ src_ext = Lower(src.suffix)
          /\ src_ext \in SupportedExts
          /\ src_ext = ".docx" => (target_ext = ".pdf" /\ conv = "docx_to_pdf")
          /\ src_ext = ".pdf" => (target_ext = ".docx" /\ conv = "pdf_to_docx")
    /\ \A e \in SupportedExts :
          /\ WebTargetExt(e) = TargetExt("none", e)
          /\ WebTargetExt(e) # e

C7_Witness ==
    /\ frontend = "web"
    /\ args.to = "none"
    /\ src.suffix = ".PDF"
    /\ conv = "pdf_to_docx"
    /\ target_ext = ".docx"

\* C8: whenever main runs a converter, the destination's extension is the
\* target extension (case-insensitively): a given --output whose extension
\* differs has it replaced by the target and is otherwise unchanged, one that
\* matches is passed unchanged, and without --output the destination is
\* output_resume with the target extension.
C8_DestinationExtension ==
    (frontend = "cli" /\ conv # "none") =>
        /\ Lower(out.suffix) = target_ext
        /\ (args.output # NoPath /\ Lower(args.output.suffix) # target_ext) =>
              out = MkPath(args.output.parent, args.output.stem, target_ext)
        /\ (args.output # NoPath /\ Lower(args.output.suffix) = target_ext) =>
              out = args.output
        /\ args.output = NoPath => out = MkPath(".", "output_resume", target_ext)

C8_Witness ==
    /\ frontend = "cli"
    /\ conv = "docx_to_pdf"
    /\ args.output = MkPath("outdir", "out", ".PDF")
    /\ out = args.output

\* C9: each conversion runs its tiers in a fixed order without retry.
\* PDF to DOCX: the office suite runs first and at most once, the secondary
\* library runs at most once and only when the binary is unavailable or
\* exited non-zero, never after a successful office-suite run.  DOCX to PDF:
\* the primary method runs first and exactly once, the office suite at most
\* once and only after the primary method raised.
C9_TierOrder ==
    /\ Count(PrimaryRuns) <= 1
    /\ Count(SofficeRuns) <= 1
    /\ Count(SecondaryRuns) <= 1
    /\ conv = "pdf_to_docx" =>
          /\ Count(PrimaryRuns) = 0
          /\ Count(SecondaryRuns) = 1 =>
                /\ ~Logged("soffice:zero")
                /\ ~soffice \/ Logged("soffice:nonzero")
                /\ \A i, j \in 1..Len(log) :
                      (log[i] \in SofficeRuns /\ log[j] \in SecondaryRuns) => i < j
          /\ Count(SofficeRuns) = 1 => (soffice /\ log[2] \in SofficeRuns)
    /\ conv = "docx_to_pdf" =>
          /\ Count(SecondaryRuns) = 0
          /\ pc \notin {"d_mkdir", "d_primary"} =>
                (Count(PrimaryRuns) = 1 /\ log[2] \in PrimaryRuns)
          /\ Count(SofficeRuns) = 1 =>
                (Logged("primary:raise") /\ log[3] \in SofficeRuns)

C9_Witness ==
    /\ conv = "pdf_to_docx"
    /\ Logged("soffice:nonzero")
    /\ Logged("secondary:ok")
    /\ pc = "c_return"

\* C10: when main raises because no input was given, the source is missing,
\* the extension is unsupported or the override equals the source format,
\* no directory has been created, no tier or process has run and nothing has
\* been printed; the success message comes only after the converter returned
\* without raising.
C10_ValidationBeforeEffects ==
    /\ (frontend = "cli" /\ err \in ValidationErrors) =>
          /\ pc = "raised"
          /\ log = <<>>
          /\ dirs = InitialDirs
          /\ fs \subseteq {Resolve(p) : p \in InputPaths \cup ColabUploads}
          /\ conv = "none"
    /\ (frontend = "cli" /\ Validating) => (log = <<>> /\ dirs = InitialDirs)
    /\ Logged("print_saved") =>
          /\ err = "none"
          /\ conv # "none"
          /\ pc = "done"
          /\ Len(log) >= 3
          /\ log[Len(log)] = "print_saved"
          /\ Count({"print_saved"}) = 1
          /\ Count({"primary:ok", "soffice:zero", "secondary:ok"}) = 1

C10_Witness ==
    /\ frontend = "cli"
    /\ err = "MissingFile"
    /\ args.output # NoPath
    /\ args.output.parent = "outdir"
    /\ log = <<>>

====
